---- MODULE Spec2Model ----
(***************************************************************************)
(* Model of _pages/main.py: the mkdocs-macros hook define_env, which       *)
(* registers the template filter remove_code_promt, and the substitution   *)
(* BYEXMAPLE_PROMT_RE.sub(byexample_repl, text) that the filter performs.  *)
(*                                                                         *)
(* A string is a sequence of one-character strings; positions are 1-based, *)
(* so Python's offset p is position p + 1 here.                            *)
(***************************************************************************)
EXTENDS Integers, Sequences, FiniteSets, TLC

VARIABLES
    BYEXMAPLE_PROMT_RE, \* the module-level compiled pattern
    env,                \* the macros environment handed to define_env
    loaded,             \* TRUE once define_env(env) has returned
    text,               \* the string given to the first filter call
    out,                \* the value piped through the filter so far
    calls,              \* how many times the filter was applied to it
    raised,             \* TRUE if a filter call ended in an exception
    inv                 \* the invocations running in threads

vars == <<BYEXMAPLE_PROMT_RE, env, loaded, text, out, calls, raised, inv>>

----------------------------------------------------------------------------
(* Bounds of the model. *)

MaxLen == 5          \* longest input string of Spec
MaxCalls == 2        \* longest chain text | f | f ...
NumThreads == 2      \* concurrent invocations of SpecConc

Alphabet == {">", ".", "=", " ", "\n", "\r", "x"}

SeqsUpTo(S, n) == UNION {[1..k -> S] : k \in 0..n}

Texts == SeqsUpTo(Alphabet, MaxLen)

Threads == 1..NumThreads

----------------------------------------------------------------------------
(* The pattern  re.compile(r"^(>>|\.\.|=>)( |$)", re.M).                   *)
(* group1: the literal alternatives of group 1; group2: the literal        *)
(* alternative of group 2 (its other alternative is the assertion $);      *)
(* flags: the compile flags.                                               *)

CompiledPatternNoFlag ==
    [group1 |-> {<<">", ">">>, <<".", ".">>, <<"=", ">">>},
     group2 |-> {" "},
     flags  |-> {}]

CompiledPattern ==
    [group1 |-> {<<">", ">">>, <<".", ".">>, <<"=", ">">>},
     group2 |-> {" "},
     flags  |-> {"M"}]

(* ^ at position i: the start of the string, and with re.M also right      *)
(* after a newline.                                                        *)
AtLineStartAnywhere(re, s, i) == TRUE

AtLineStart(re, s, i) ==
    \/ i = 1
    \/ "M" \in re.flags /\ i > 1 /\ i <= Len(s) + 1 /\ s[i - 1] = "\n"

(* $ at position i: the end of the string or before a newline that ends    *)
(* the string, and with re.M also before every newline.                    *)
AtLineEndCR(re, s, i) ==
    \/ i = Len(s) + 1
    \/ i <= Len(s) /\ s[i] \in {"\n", "\r"}

AtLineEndAlways(re, s, i) == TRUE

AtLineEnd(re, s, i) ==
    \/ i = Len(s) + 1
    \/ i = Len(s) /\ s[i] = "\n"
    \/ "M" \in re.flags /\ i <= Len(s) /\ s[i] = "\n"

(* Length of the match of the pattern starting exactly at position i,      *)
(* 0 if there is none.  Group 2 tries the space first, then $.             *)
MatchLen(re, s, i) ==
    IF ~AtLineStart(re, s, i) \/ i + 1 > Len(s) THEN 0
    ELSE IF SubSeq(s, i, i + 1) \notin re.group1 THEN 0
    ELSE IF i + 2 <= Len(s) /\ s[i + 2] \in re.group2 THEN 3
    ELSE IF AtLineEnd(re, s, i + 2) THEN 2
    ELSE 0

(* The match object of the match at i: matchobj[n] is matchobj.group(n),   *)
(* group 0 the whole match, group 1 the token, group 2 the space or the    *)
(* empty string matched by $.                                              *)
MatchObj(re, s, i) ==
    [n \in 0..2 |->
        IF n = 0 THEN SubSeq(s, i, i + MatchLen(re, s, i) - 1)
        ELSE IF n = 1 THEN SubSeq(s, i, i + 1)
        ELSE SubSeq(s, i + 2, i + MatchLen(re, s, i) - 1)]

(* search from pos: the leftmost position >= pos with a match, 0 if none.  *)
Search(re, s, pos) ==
    LET hits == {i \in pos..Len(s) : MatchLen(re, s, i) > 0}
    IN  IF hits = {} THEN 0
        ELSE CHOOSE i \in hits : \A j \in hits : i <= j

(* matchobj.group(n) for n = 0, 1, 2; any other group number, one the      *)
(* pattern does not have, raises IndexError.                               *)
IndexError == <<"IndexError">>

Group(matchobj, n) == IF n \in DOMAIN matchobj THEN matchobj[n] ELSE IndexError

(* def byexample_repl(matchobj) *)
byexample_repl_dots(matchobj) ==
    IF Group(matchobj, 1) = IndexError THEN IndexError
    ELSE IF Group(matchobj, 1) # <<">", ">">> THEN <<"#", "=", ">", " ">>
    ELSE <<>>

byexample_repl_delim(matchobj) ==
    IF Group(matchobj, 1) = IndexError THEN IndexError
    ELSE IF Group(matchobj, 1) = <<"=", ">">>
         THEN <<"#", "=", ">">> \o Group(matchobj, 2)
    ELSE <<>>

byexample_repl_group3(matchobj) ==
    IF Group(matchobj, 3) = IndexError THEN IndexError
    ELSE IF Group(matchobj, 3) = <<"=", ">">> THEN <<"#", "=", ">", " ">>
    ELSE <<>>

byexample_repl(matchobj) ==
    IF Group(matchobj, 1) = IndexError THEN IndexError
    ELSE IF Group(matchobj, 1) = <<"=", ">">> THEN <<"#", "=", ">", " ">>
    ELSE <<>>

----------------------------------------------------------------------------
(* pattern.sub(repl, s): the scan keeps the position after the last match  *)
(* and the output built so far.  One step finds the next match, copies the *)
(* text before it, calls repl and appends what it returns; with no match   *)
(* left it copies the rest of the string and ends.                         *)

SubStart == [pos |-> 1, out |-> <<>>, done |-> FALSE, exc |-> FALSE]

SubStep(re, s, st) ==
    LET i == Search(re, s, st.pos)
    IN  IF i = 0
        THEN [st EXCEPT !.pos = Len(s) + 1,
                        !.out = st.out \o SubSeq(s, st.pos, Len(s)),
                        !.done = TRUE]
        ELSE LET r == byexample_repl(MatchObj(re, s, i))
             IN  IF r = IndexError
                 THEN [st EXCEPT !.done = TRUE, !.exc = TRUE]
                 ELSE [st EXCEPT !.pos = i + MatchLen(re, s, i),
                                 !.out = st.out \o SubSeq(s, st.pos, i - 1) \o r]

RECURSIVE SubRun(_, _, _)
SubRun(re, s, st) == IF st.done THEN st ELSE SubRun(re, s, SubStep(re, s, st))

(* def remove_code_promt(text): the final state of the substitution.       *)
remove_code_promt(s) == SubRun(BYEXMAPLE_PROMT_RE, s, SubStart)

----------------------------------------------------------------------------
(* The environment: its registries of filters, macros and variables, each  *)
(* a mapping from a name to a value; a function value is its __name__.     *)

Empty == [n \in {} |-> ""]

NewEnv == [filters |-> Empty, macros |-> Empty, variables |-> Empty]

(* @env.filter / @env.macro: register fn under fn.__name__ *)
EnvFilter(e, fn) == [e EXCEPT !.filters = (fn :> fn) @@ @]

EnvMacro(e, fn) == [e EXCEPT !.macros = (fn :> fn) @@ @]

(* def define_env(env) *)
define_env_as_macro(e) == EnvMacro(e, "remove_code_promt")

define_env(e) == EnvFilter(e, "remove_code_promt")

(* calling a registered function value *)
CallFilter(fn, s) ==
    IF fn = "remove_code_promt" THEN remove_code_promt(s)
    ELSE [SubStart EXCEPT !.out = s, !.done = TRUE]

(* One invocation of the filter in a thread: where it is, its argument,    *)
(* the state of its substitution and the value it returned.                *)
IdleInvocation == [pc |-> "idle", text |-> <<>>, st |-> SubStart, result |-> <<>>]

----------------------------------------------------------------------------
(* Spec: one value piped through the registered filter.                    *)

Init ==
    /\ BYEXMAPLE_PROMT_RE = CompiledPattern
    /\ env = NewEnv
    /\ loaded = FALSE
    /\ text \in Texts
    /\ out = text
    /\ calls = 0
    /\ raised = FALSE
    /\ inv = [t \in Threads |-> IdleInvocation]

(* the plugin loads the module and calls define_env(env) *)
DefineEnv ==
    /\ env' = define_env(env)
    /\ loaded' = TRUE
    /\ UNCHANGED <<BYEXMAPLE_PROMT_RE, text, out, calls, raised, inv>>

(* a template applies  value | remove_code_promt *)
Apply ==
    /\ calls < MaxCalls
    /\ ~raised
    /\ "remove_code_promt" \in DOMAIN env.filters
    /\ LET r == CallFilter(env.filters["remove_code_promt"], out)
       IN  /\ raised' = r.exc
           /\ out' = IF r.exc THEN out ELSE r.out
    /\ calls' = calls + 1
    /\ UNCHANGED <<BYEXMAPLE_PROMT_RE, env, loaded, text, inv>>

Next == DefineEnv \/ Apply

Spec == Init /\ [][Next]_vars

----------------------------------------------------------------------------
(* SpecConc: threads call the registered filter concurrently.  A thread    *)
(* can be switched out wherever the substitution runs Python code, that   *)
(* is at each call of byexample_repl, so one step of an invocation is one  *)
(* step of its scan.                                                       *)

ConcLines ==
    {<<">", ">", " ", "=", ">">>, <<"=", ">", " ", "x">>, <<"x", " ", ".", ".">>}

ConcTexts ==
    {<<>>} \cup ConcLines \cup {a \o <<"\n">> \o b : a \in ConcLines, b \in ConcLines}

InitConc ==
    /\ BYEXMAPLE_PROMT_RE = CompiledPattern
    /\ env = NewEnv
    /\ loaded = FALSE
    /\ text = <<>>
    /\ out = <<>>
    /\ calls = 0
    /\ raised = FALSE
    /\ inv = [t \in Threads |-> IdleInvocation]

(* thread t calls env.filters['remove_code_promt'](x) *)
Call(t, x) ==
    /\ inv[t].pc \in {"idle", "done"}
    /\ "remove_code_promt" \in DOMAIN env.filters
    /\ env.filters["remove_code_promt"] = "remove_code_promt"
    /\ inv' = [inv EXCEPT ![t] = [pc |-> "running", text |-> x,
                                  st |-> SubStart, result |-> <<>>]]
    /\ UNCHANGED <<BYEXMAPLE_PROMT_RE, env, loaded, text, out, calls, raised>>

(* the scan of thread t advances by one step; its position and output are  *)
(* local to the call                                                       *)
StepInvocationShared(iv, t) ==
    [u \in DOMAIN iv |->
        IF iv[u].pc = "running" /\ ~iv[u].st.done
        THEN [iv[u] EXCEPT !.st = SubStep(BYEXMAPLE_PROMT_RE, iv[t].text, iv[t].st)]
        ELSE iv[u]]

StepInvocation(iv, t) ==
    [iv EXCEPT ![t].st = SubStep(BYEXMAPLE_PROMT_RE, iv[t].text, iv[t].st)]

Step(t) ==
    /\ inv[t].pc = "running"
    /\ ~inv[t].st.done
    /\ inv' = StepInvocation(inv, t)
    /\ UNCHANGED <<BYEXMAPLE_PROMT_RE, env, loaded, text, out, calls, raised>>

(* the call of thread t returns the string built by its scan *)
Return(t) ==
    /\ inv[t].pc = "running"
    /\ inv[t].st.done
    /\ inv' = [inv EXCEPT ![t].pc = "done", ![t].result = inv[t].st.out]
    /\ UNCHANGED <<BYEXMAPLE_PROMT_RE, env, loaded, text, out, calls, raised>>

NextConc ==
    \/ DefineEnv
    \/ \E t \in Threads : \E x \in ConcTexts : Call(t, x)
    \/ \E t \in Threads : Step(t)
    \/ \E t \in Threads : Return(t)

SpecConc == InitConc /\ [][NextConc]_vars

----------------------------------------------------------------------------
(* Vocabulary of the properties: the lines of a string and the per-line    *)
(* reading of the prompt markers.                                          *)

Tokens == {<<">", ">">>, <<".", ".">>, <<"=", ">">>}

StripTokens == {<<">", ">">>, <<".", ".">>}

RECURSIVE Split(_)
Split(s) ==
    IF \A i \in 1..Len(s) : s[i] # "\n" THEN <<s>>
    ELSE LET i == CHOOSE k \in 1..Len(s) :
                      s[k] = "\n" /\ \A j \in 1..(k - 1) : s[j] # "\n"
         IN  <<SubSeq(s, 1, i - 1)>> \o Split(SubSeq(s, i + 1, Len(s)))

RECURSIVE Join(_)
Join(ls) ==
    IF Len(ls) = 0 THEN <<>>
    ELSE IF Len(ls) = 1 THEN ls[1]
    ELSE ls[1] \o <<"\n">> \o Join(Tail(ls))

NumLines(s) == Len(Split(s))

(* line j of s; a one-newline string, which no line is, if s has no line j *)
LineOf(s, j) == IF j \in 1..NumLines(s) THEN Split(s)[j] ELSE <<"\n">>

(* the line L starts with one of toks followed by a space or the line end  *)
StartsWithPrompt(L, toks) ==
    /\ Len(L) >= 2
    /\ SubSeq(L, 1, 2) \in toks
    /\ (Len(L) = 2 \/ L[3] = " ")

(* L without its first three characters (the token and one space)          *)
Rest(L) == SubSeq(L, 4, Len(L))

HashPrompt == <<"#", "=", ">", " ">>

RewriteLine(L) ==
    IF StartsWithPrompt(L, StripTokens) THEN Rest(L)
    ELSE IF StartsWithPrompt(L, {<<"=", ">">>}) THEN HashPrompt \o Rest(L)
    ELSE L

(* a line whose stripped prompt is directly followed by a second prompt    *)
StackedLine(L) ==
    /\ StartsWithPrompt(L, StripTokens)
    /\ StartsWithPrompt(Rest(L), Tokens)

HasStackedPrompt(s) == \E j \in 1..NumLines(s) : StackedLine(LineOf(s, j))

NoPromptLine(s) ==
    \A j \in 1..NumLines(s) : ~StartsWithPrompt(LineOf(s, j), Tokens)

IsString(s) == s \in Seq(Alphabet \cup {"#"})

(* the filter was applied once to text and returned out *)
AppliedOnce == calls = 1 /\ ~raised

(* the result of the substitution with the pattern as compiled *)
PromptSub(s) == SubRun(CompiledPattern, s, SubStart).out

----------------------------------------------------------------------------
(* C1 as stated: applying the filter twice gives the same result as        *)
(* applying it once, for every input string.                               *)
C1_Idempotent == (calls = 2 /\ ~raised) => out = PromptSub(text)

(* C1 amended: applying the filter twice gives the same result as applying *)
(* it once for every input in which no line starts with '>> ' or '.. '     *)
(* directly followed by a second prompt token that is itself followed by a *)
(* space or the line end.                                                  *)
C1_IdempotentUnstacked ==
    (calls = 2 /\ ~raised /\ ~HasStackedPrompt(text)) => out = PromptSub(text)

C1_Witness ==
    calls = 2 /\ ~raised /\ ~HasStackedPrompt(text) /\ out # text

(* C2: on a text in which no line starts with '>>', '..' or '=>' followed  *)
(* by a space or the line end, the filter returns the text unchanged.      *)
C2_Identity == (AppliedOnce /\ NoPromptLine(text)) => out = text

C2_Witness ==
    /\ AppliedOnce /\ NoPromptLine(text) /\ out = text
    /\ \E i \in 2..(Len(text) - 1) : SubSeq(text, i, i + 1) \in Tokens

(* C3: a line that starts with '>>' or '..' followed by a space or the     *)
(* line end loses exactly the token and at most one following space.       *)
C3_Strip ==
    AppliedOnce =>
        \A j \in 1..NumLines(text) :
            LET L == LineOf(text, j)
            IN  StartsWithPrompt(L, StripTokens) => LineOf(out, j) = Rest(L)

C3_Witness ==
    /\ AppliedOnce
    /\ text = <<".", ".", " ", " ", "x">>
    /\ out = <<" ", "x">>

(* C4: a line that starts with '=>' followed by a space or the line end    *)
(* has that span replaced by '#=> ', the trailing space included in both   *)
(* cases.                                                                  *)
C4_Hash ==
    AppliedOnce =>
        \A j \in 1..NumLines(text) :
            LET L == LineOf(text, j)
            IN  StartsWithPrompt(L, {<<"=", ">">>}) =>
                    LineOf(out, j) = HashPrompt \o Rest(L)

C4_Witness ==
    /\ AppliedOnce
    /\ text = <<"=", ">", "\n">>
    /\ out = <<"#", "=", ">", " ", "\n">>

(* C5: on each line at most one span is rewritten, it starts at the line   *)
(* start and is at most 3 characters long, and the rest of the line is     *)
(* kept character for character, also when that rest begins with a prompt  *)
(* token.                                                                  *)
C5_Frame ==
    AppliedOnce =>
        /\ NumLines(out) = NumLines(text)
        /\ \A j \in 1..NumLines(text) :
            LET L == LineOf(text, j)
                O == LineOf(out, j)
            IN  /\ \E k \in 0..3 : \E p \in {<<>>, HashPrompt} :
                     /\ k <= Len(L)
                     /\ k = 0 => p = <<>>
                     /\ O = p \o SubSeq(L, k + 1, Len(L))
                /\ StackedLine(L) => O = Rest(L)

C5_Witness ==
    /\ AppliedOnce
    /\ text = <<">", ">", " ", "=", ">">>
    /\ out = <<"=", ">">>

(* C6: the filter is total: every call returns a string and none ends in   *)
(* an exception; the empty string maps to the empty string.                *)
C6_Total ==
    calls >= 1 =>
        /\ ~raised
        /\ IsString(out)
        /\ text = <<>> => out = <<>>

C6_Witness ==
    /\ calls = 1 /\ ~raised
    /\ text = <<">", ">", "\n", "=", ">">>
    /\ out = <<"\n", "#", "=", ">", " ">>

(* C7: after define_env(env) the filter registry holds exactly the filter  *)
(* 'remove_code_promt', no macro and no variable is registered, and        *)
(* calling the registered filter gives the result of the substitution.     *)
C7_Registry ==
    loaded =>
        /\ DOMAIN env.filters = {"remove_code_promt"}
        /\ DOMAIN env.macros = {}
        /\ DOMAIN env.variables = {}
        /\ AppliedOnce => out = PromptSub(text)

C7_Witness == loaded /\ AppliedOnce /\ out # text

(* C8: invocations do not interfere: under every interleaving each         *)
(* invocation returns what it returns when run alone, none ends in an      *)
(* exception, and the pattern and the registry stay as they were set up.   *)
C8_NoInterference ==
    /\ BYEXMAPLE_PROMT_RE = CompiledPattern
    /\ env = IF loaded THEN define_env(NewEnv) ELSE NewEnv
    /\ \A t \in Threads :
        /\ ~inv[t].st.exc
        /\ inv[t].pc = "done" => inv[t].result = PromptSub(inv[t].text)

C8_Witness ==
    /\ inv[1].pc = "done"
    /\ inv[1].text = <<">", ">", " ", "=", ">", "\n", "=", ">", " ", "x">>
    /\ inv[1].result = <<"=", ">", "\n", "#", "=", ">", " ", "x">>
    /\ inv[2].pc = "running"
    /\ inv[2].st.pos > 1
    /\ ~inv[2].st.done

(* C9: the substitution over the whole text equals rewriting each line on  *)
(* its own and joining the lines with newlines again.                      *)
C9_LineByLine ==
    AppliedOnce =>
        out = Join([j \in 1..NumLines(text) |-> RewriteLine(LineOf(text, j))])

C9_Witness ==
    /\ AppliedOnce
    /\ NumLines(text) >= 2
    /\ StartsWithPrompt(LineOf(text, 1), Tokens)
    /\ StartsWithPrompt(LineOf(text, 2), Tokens)

(* C10: a token followed by a carriage return is not at a line end, and a  *)
(* carriage return does not start a line: such lines are left unmodified.  *)
C10_CarriageReturn ==
    AppliedOnce =>
        \A j \in 1..NumLines(text) :
            LET L == LineOf(text, j)
            IN  /\ (Len(L) >= 3 /\ SubSeq(L, 1, 2) \in Tokens /\ L[3] = "\r")
                       => LineOf(out, j) = L
                /\ ((\E i \in 1..Len(L) : L[i] = "\r")
                        /\ ~StartsWithPrompt(L, Tokens))
                       => LineOf(out, j) = L

C10_Witness ==
    /\ AppliedOnce
    /\ text = <<"=", ">", "\r", "\n">>
    /\ out = text

====
